---- MODULE Spec2Model ----
(***************************************************************************)
(* Buyer-lead intake backend: the zod constraint schemas                   *)
(* (utils/validation), the buyers routes (create, update, delete, CSV      *)
(* import) and the buyers / buyer_history tables of the initial migration. *)
(*                                                                         *)
(* A JavaScript value that may be undefined, or a nullable column, is a    *)
(* sequence of length at most one: <<>> is undefined / NULL, <<v>> is v.   *)
(* Tag strings and the CSV tags cell are sequences of one-character        *)
(* strings, so that split / trim are computed; other strings are strings.  *)
(***************************************************************************)
EXTENDS Integers, Sequences, FiniteSets, TLC

None == <<>>
Some(v) == <<v>>
Val(o) == o[1]

(* JavaScript truthiness of an optional string / optional number *)
TruthyStr(o) == o # None /\ o # Some("")
TruthyNum(o) == o # None /\ o # Some(0)

---------------------------------------------------------------------------
(* Bounds of the model *)
MaxClock == 3          \* committed store writes that take a timestamp
MaxLeads == 2          \* lead ids ever allocated

---------------------------------------------------------------------------
(* utils/validation: enums *)
CityEnum == {"Chandigarh", "Mohali", "Zirakpur", "Panchkula", "Other"}
PropertyTypeEnum == {"Apartment", "Villa", "Plot", "Office", "Retail"}
BHKEnum == {"1", "2", "3", "4", "Studio"}
PurposeEnum == {"Buy", "Rent"}
TimelineEnum == {"0-3m", "3-6m", ">6m", "Exploring"}
SourceEnum == {"Website", "Referral", "Walk-in", "Call", "Other"}
StatusEnum == {"New", "Qualified", "Contacted", "Visited", "Negotiation", "Converted", "Dropped"}

Fields == {"fullName", "email", "phone", "city", "propertyType", "bhk", "purpose",
           "budgetMin", "budgetMax", "timeline", "source", "status", "notes", "tags"}

(* the keys of buyerSchema that are neither .optional() nor .default() *)
RequiredFields == {"fullName", "phone", "city", "propertyType", "purpose", "timeline", "source"}

(* /^\d{10,15}$/ and z.string().email() over the strings the model uses *)
phoneSchema(v) == v \in {"9876543210", "987654321012345"}
IsEmail(v) == v \in {"a@x.io", "b@x.io"}

(* the instants of the store clock, and their ISO rendering *)
Instants == 0..(MaxClock + 1)
ToISOString(t) == ToString(t)
IsDatetime(s) == \E t \in Instants : ToISOString(t) = s
GetTime(s) == CHOOSE t \in Instants : ToISOString(t) = s

(* one key of the z.object() of buyerSchema, on a present value *)
ValueOK(f, v) ==
  CASE f = "fullName" -> Len(v) >= 2 /\ Len(v) <= 80
    [] f = "email" -> IsEmail(v) \/ v = ""
    [] f = "phone" -> phoneSchema(v)
    [] f = "city" -> v \in CityEnum
    [] f = "propertyType" -> v \in PropertyTypeEnum
    [] f = "bhk" -> v \in BHKEnum
    [] f = "purpose" -> v \in PurposeEnum
    [] f = "budgetMin" -> v \in Int /\ v >= 0
    [] f = "budgetMax" -> v \in Int /\ v >= 0
    [] f = "timeline" -> v \in TimelineEnum
    [] f = "source" -> v \in SourceEnum
    [] f = "status" -> v \in StatusEnum
    [] f = "notes" -> Len(v) <= 1000
    [] f = "tags" -> TRUE

(* the keys whose value the object schema rejects; partial: every key optional *)
ShapeIssues(p, partial) ==
  {f \in Fields : IF p[f] = None THEN ~partial /\ f \in RequiredFields
                                  ELSE ~ValueOK(f, Val(p[f]))}

(* status: StatusEnum.default("New"), tags: ....optional().default([]) *)
WithDefaults(p) ==
  [p EXCEPT !["status"] = IF @ = None THEN Some("New") ELSE @,
            !["tags"] = IF @ = None THEN Some(<<>>) ELSE @]

(* first .refine(): BHK required for Apartment and Villa *)
BhkRefineMutApartmentOnly(data) ==
  ~(data.propertyType # None /\ Val(data.propertyType) \in {"Apartment"}
      /\ ~TruthyStr(data.bhk))
BhkRefine(data) ==
  ~(data.propertyType # None /\ Val(data.propertyType) \in {"Apartment", "Villa"}
      /\ ~TruthyStr(data.bhk))

(* second .refine(): budgetMax >= budgetMin, guarded by the truthiness of both *)
BudgetRefine(data) ==
  IF TruthyNum(data.budgetMin) /\ TruthyNum(data.budgetMax)
    THEN Val(data.budgetMax) >= Val(data.budgetMin)
    ELSE TRUE

RefineIssues(data) ==
  (IF BhkRefine(data) THEN {} ELSE {"bhk"})
    \cup (IF BudgetRefine(data) THEN {} ELSE {"budgetMax"})

(* buyerSchema.parse: the refinements run once the object itself parsed *)
buyerSchema(p) ==
  LET shape == ShapeIssues(p, FALSE)
      data == [f \in Fields |-> WithDefaults(p)[f]]
      issues == IF shape # {} THEN shape ELSE RefineIssues(data)
  IN [ok |-> issues = {}, data |-> data, issues |-> issues]

(* updateBuyerSchema = buyerSchema.partial().safeExtend({updatedAt}).        *)
(* Every key becomes optional around its own schema, so the two defaults     *)
(* still fill an absent status / tags; keepChecks says whether this build of *)
(* the library carries the two refinements over to the partial schema.       *)
updateBuyerSchema(p, keepChecks) ==
  LET shape == ShapeIssues(p, TRUE)
               \cup (IF p.updatedAt # None /\ ~IsDatetime(Val(p.updatedAt))
                       THEN {"updatedAt"} ELSE {})
      data == WithDefaults(p)
      issues == IF shape # {} THEN shape
                ELSE IF keepChecks THEN RefineIssues(data) ELSE {}
  IN [ok |-> issues = {}, data |-> data, issues |-> issues]

---------------------------------------------------------------------------
(* CSV import: row processing and csvRowSchema *)

(* Number.parseInt on a CSV cell: a one-digit decimal string parses to its *)
(* value, any other cell of the model to NaN (here -1, which z.number()    *)
(* rejects like NaN)                                                       *)
ParseInt(s) ==
  IF \E n \in 0..9 : ToString(n) = s
    THEN CHOOSE n \in 0..9 : ToString(n) = s
    ELSE -1

(* String.prototype.split(",") on a sequence of characters *)
RECURSIVE SplitFrom(_, _, _)
SplitFrom(s, i, cur) ==
  IF i > Len(s) THEN <<cur>>
  ELSE IF s[i] = "," THEN <<cur>> \o SplitFrom(s, i + 1, <<>>)
  ELSE SplitFrom(s, i + 1, Append(cur, s[i]))

RECURSIVE TrimStart(_)
TrimStart(s) == IF s # <<>> /\ Head(s) = " " THEN TrimStart(Tail(s)) ELSE s
RECURSIVE TrimEnd(_)
TrimEnd(s) ==
  IF s # <<>> /\ s[Len(s)] = " " THEN TrimEnd(SubSeq(s, 1, Len(s) - 1)) ELSE s
Trim(s) == TrimEnd(TrimStart(s))

(* the .transform() of csvRowSchema.tags *)
TagsTransform(val) ==
  IF val = None \/ Val(val) = <<>> THEN <<>>
  ELSE LET parts == SplitFrom(Val(val), 1, <<>>)
           trimmed == [i \in 1..Len(parts) |-> Trim(parts[i])]
           NonEmpty(tag) == Len(tag) > 0
       IN SelectSeq(trimmed, NonEmpty)

(* processedRow: budget cells parsed when non-empty, tags defaulted to "" *)
processedRow(row) ==
  [row EXCEPT !["budgetMin"] = IF TruthyStr(@) THEN Some(ParseInt(Val(@))) ELSE None,
              !["budgetMax"] = IF TruthyStr(@) THEN Some(ParseInt(Val(@))) ELSE None,
              !["tags"] = IF @ = None \/ @ = Some(<<>>) THEN Some(<<>>) ELSE @]

(* csvRowSchema = buyerSchema.safeExtend({tags: string -> list}): the two *)
(* refinements of buyerSchema are kept                                     *)
csvRowSchema(p) ==
  LET shape == ShapeIssues(p, FALSE)
      data == [f \in Fields |-> IF f = "tags" THEN Some(TagsTransform(p.tags))
                                             ELSE WithDefaults(p)[f]]
      issues == IF shape # {} THEN shape ELSE RefineIssues(data)
  IN [ok |-> issues = {}, data |-> data, issues |-> issues]

---------------------------------------------------------------------------
(* The store: tables buyers and buyer_history of 001_initial_schema.sql *)

Users == {"u1", "u2", "admin"}
Role(u) == IF u = "admin" THEN "admin" ELSE "user"

(* CONSTRAINT budget_check *)
budget_checkMutDropped(r) == TRUE
budget_check(r) ==
  (r.budget_min = None \/ r.budget_max = None)
    \/ Val(r.budget_max) >= Val(r.budget_min)

(* CONSTRAINT bhk_required_check *)
bhk_required_checkMutDropped(r) == TRUE
bhk_required_check(r) ==
  Val(r.property_type) \notin {"Apartment", "Villa"} \/ r.bhk # None

(* the NOT NULL columns and the two table constraints of buyers; the      *)
(* per-column CHECKs repeat what the schemas already enforce              *)
TableChecks(r) ==
  /\ \A c \in {"full_name", "phone", "city", "property_type", "purpose",
                "timeline", "source"} : r[c] # None
  /\ budget_check(r)
  /\ bhk_required_check(r)

(* the VALUES list of INSERT INTO buyers, as written in create and import *)
InsertValues(d) ==
  [full_name |-> d.fullName,
   email |-> IF TruthyStr(d.email) THEN d.email ELSE None,
   phone |-> d.phone,
   city |-> d.city,
   property_type |-> d.propertyType,
   bhk |-> IF TruthyStr(d.bhk) THEN d.bhk ELSE None,
   purpose |-> d.purpose,
   budget_min |-> IF TruthyNum(d.budgetMin) THEN d.budgetMin ELSE None,
   budget_max |-> IF TruthyNum(d.budgetMax) THEN d.budgetMax ELSE None,
   timeline |-> d.timeline,
   source |-> d.source,
   status |-> IF TruthyStr(d.status) THEN d.status ELSE Some("New"),
   notes |-> IF TruthyStr(d.notes) THEN d.notes ELSE None,
   tags |-> IF d.tags = None THEN Some(<<>>) ELSE d.tags]

(* the row INSERT INTO buyers ... RETURNING * stores: the parameters, the *)
(* requester as owner_id, and the two CURRENT_TIMESTAMP defaults          *)
InsertedRowMutFixedOwner(d, owner, now) ==
  InsertValues(d) @@ [owner_id |-> "admin", created_at |-> now, updated_at |-> now]
InsertedRow(d, owner, now) ==
  InsertValues(d) @@ [owner_id |-> owner, created_at |-> now, updated_at |-> now]

(* recordHistory: one row appended to buyer_history *)
recordHistoryMutSkip(history, buyerId, changedBy, now, diff) == history
recordHistory(history, buyerId, changedBy, now, diff) ==
  Append(history, [buyer_id |-> buyerId, changed_by |-> changedBy,
                   changed_at |-> now, diff |-> diff])

(* checkOwnership *)
checkOwnershipMutAnyone(user, buyerOwnerId) == TRUE
checkOwnership(user, buyerOwnerId) ==
  Role(user) = "admin" \/ user = buyerOwnerId

(* ON DELETE CASCADE of buyer_history.buyer_id *)
CascadeDelete(history, id) ==
  LET Keep(h) == h.buyer_id # id IN SelectSeq(history, Keep)

(* REFERENCES buyers(id) of buyer_history.buyer_id: the insert of an audit *)
(* row is refused unless its lead is in the table                         *)
HistoryForeignKeyMutDropped(buyers, buyerId) == TRUE
HistoryForeignKey(buyers, buyerId) == buyerId \in DOMAIN buyers

(* WHERE id = $n of the UPDATE: the rows the statement writes *)
UpdateWhereMutTokenGuard(buyers, id, currentBuyer) ==
  {i \in DOMAIN buyers : i = id /\ buyers[i].updated_at = currentBuyer.updated_at}
UpdateWhere(buyers, id, currentBuyer) == {i \in DOMAIN buyers : i = id}

fieldMapping ==
  [fullName |-> "full_name", email |-> "email", phone |-> "phone", city |-> "city",
   propertyType |-> "property_type", bhk |-> "bhk", purpose |-> "purpose",
   budgetMin |-> "budget_min", budgetMax |-> "budget_max", timeline |-> "timeline",
   source |-> "source", status |-> "status", notes |-> "notes", tags |-> "tags"]

---------------------------------------------------------------------------
(* The handlers of routes/buyers, as functions of the store and the request. *)
(* resp.error is the error text of a 400 answer of the import route.         *)
(* resp.query, orderBy, buyers and pagination are filled by the list route:  *)
(* the query string, the ORDER BY column of the SQL text, the ids of the     *)
(* rows returned and the pagination object.  The export route fills query,   *)
(* orderBy, buyers (the ids exported) and batch (the rows of the file).      *)
(* db = [buyers, history, clock, nextId]; the result is the store after the  *)
(* handler and the response sent.  fault names the store statement that      *)
(* fails in this run of the handler ("none" when all succeed).               *)

PayloadKeys == Fields \cup {"updatedAt"}
NoPayload == [f \in PayloadKeys |-> None]
StringFields == Fields \ {"budgetMin", "budgetMax", "tags"}

BaseResp(op, actor, id, payload, batch) ==
  [op |-> op, actor |-> actor, id |-> id, payload |-> payload, batch |-> batch,
   status |-> 0, buyer |-> None, currentUpdatedAt |-> None, errors |-> <<>>,
   validRowsCount |-> 0, totalRowsCount |-> 0, importedCount |-> 0,
   fault |-> "none", failedAt |-> 0, error |-> "",
   query |-> <<>>, orderBy |-> None, buyers |-> <<>>, pagination |-> None]

Reply(db, r) == [db |-> db, resp |-> r]

(* router.post("/") *)
createLead(db, actor, p, fault) ==
  LET v == buyerSchema(p)
      base == BaseResp("create", actor, 0, p, <<>>)
      now == db.clock + 1
      id == db.nextId + 1
      row == InsertedRow(v.data, actor, now)
      inserted == [db EXCEPT !.buyers = (id :> row) @@ @, !.clock = now, !.nextId = id]
  IN IF ~v.ok THEN Reply(db, [base EXCEPT !.status = 400])
     ELSE IF fault = "write" \/ ~TableChecks(row)
       THEN Reply(db, [base EXCEPT !.status = 500, !.fault = "write"])
     ELSE IF fault = "history"
       THEN Reply(inserted, [base EXCEPT !.status = 500, !.fault = "history"])
     ELSE Reply([inserted EXCEPT !.history =
                    recordHistory(@, id, actor, now,
                                  [action |-> "created", data |-> v.data])],
                [base EXCEPT !.status = 201, !.id = id, !.buyer = Some(row)])

(* the value bound to the column: value === "" ? null : value *)
UpdateValue(f, o) == IF f \in StringFields /\ o = Some("") THEN None ELSE o

(* currentBuyer[dbField] !== value; two arrays are never identical *)
StrictlyDiffers(f, stored, o) == IF f = "tags" THEN TRUE ELSE stored # o

(* SET <supplied columns>, updated_at = CURRENT_TIMESTAMP *)
UpdateSet(currentBuyer, data, supplied, now) ==
  [c \in DOMAIN currentBuyer |->
     IF c = "updated_at" THEN now
     ELSE IF \E f \in supplied : fieldMapping[f] = c
       THEN LET f == CHOOSE g \in supplied : fieldMapping[g] = c
            IN UpdateValue(f, data[f])
       ELSE currentBuyer[c]]

(* the optimistic concurrency check: token present and its instant differs *)
StaleTokenMutNoCheck(data, currentBuyer) == FALSE
StaleToken(data, currentBuyer) ==
  /\ TruthyStr(data.updatedAt)
  /\ GetTime(Val(data.updatedAt)) # currentBuyer.updated_at

(* router.put("/:id") *)
updateLead(db, actor, id, p, keepChecks, fault) ==
  LET v == updateBuyerSchema(p, keepChecks)
      base == BaseResp("update", actor, id, p, <<>>)
  IN IF ~v.ok THEN Reply(db, [base EXCEPT !.status = 400])
     ELSE IF id \notin DOMAIN db.buyers THEN Reply(db, [base EXCEPT !.status = 404])
     ELSE
       LET currentBuyer == db.buyers[id]
           supplied == {f \in Fields : v.data[f] # None}
           changed == {f \in supplied :
                         StrictlyDiffers(f, currentBuyer[fieldMapping[f]], v.data[f])}
           changes == [f \in changed |->
                         [from |-> currentBuyer[fieldMapping[f]], to |-> v.data[f]]]
           now == db.clock + 1
           row == UpdateSet(currentBuyer, v.data, supplied, now)
           updated == [db EXCEPT !.buyers[id] = row, !.clock = now]
       IN IF ~checkOwnership(actor, currentBuyer.owner_id)
            THEN Reply(db, [base EXCEPT !.status = 403])
          ELSE IF StaleToken(v.data, currentBuyer)
            THEN Reply(db, [base EXCEPT !.status = 409,
                                        !.currentUpdatedAt = Some(currentBuyer.updated_at)])
          ELSE IF supplied = {} THEN Reply(db, [base EXCEPT !.status = 400])
          ELSE IF fault = "write" \/ ~TableChecks(row)
            THEN Reply(db, [base EXCEPT !.status = 500, !.fault = "write"])
          ELSE IF changed = {}
            THEN Reply(updated, [base EXCEPT !.status = 200, !.buyer = Some(row)])
          ELSE IF fault = "history"
            THEN Reply(updated, [base EXCEPT !.status = 500, !.fault = "history"])
          ELSE Reply([updated EXCEPT !.history =
                         recordHistory(@, id, actor, now,
                                       [action |-> "updated", changes |-> changes])],
                     [base EXCEPT !.status = 200, !.buyer = Some(row)])

(* router.delete("/:id") *)
deleteLead(db, actor, id, fault) ==
  LET base == BaseResp("delete", actor, id, NoPayload, <<>>)
  IN IF id \notin DOMAIN db.buyers THEN Reply(db, [base EXCEPT !.status = 404])
     ELSE IF ~checkOwnership(actor, db.buyers[id].owner_id)
       THEN Reply(db, [base EXCEPT !.status = 403])
     ELSE IF fault = "write"
       THEN Reply(db, [base EXCEPT !.status = 500, !.fault = "write"])
     ELSE Reply([db EXCEPT
                   !.buyers = [i \in DOMAIN db.buyers \ {id} |-> db.buyers[i]],
                   !.history = CascadeDelete(@, id)],
                [base EXCEPT !.status = 200])

---------------------------------------------------------------------------
(* router.post("/import") *)

MaxImportRows == 200

(* errors.push({row: index + 1, ...}), index counted from 0 *)
RowNumber(index) == index + 1

(* the statements between BEGIN and COMMIT: for the k-th valid row the INSERT *)
(* INTO buyers is statement 2k-1 and the INSERT INTO buyer_history is 2k.     *)
(* The loop stops at the first statement that throws: statement failAt, or    *)
(* the insert of a row the table constraints reject.  tx is the               *)
(* transaction's own view of the two tables, tx.failedAt the statement that   *)
(* threw (0: none).                                                           *)
TxRows(tx, validRows, actor, now, failAt) ==
  LET n == Len(validRows)
      Row(k) == InsertedRow(validRows[k], actor, now)
      throwing == {2 * k - 1 : k \in {j \in 1..n : ~TableChecks(Row(j))}}
                    \cup ({failAt} \cap 1..(2 * n))
      failedAt == IF throwing = {} THEN 0
                  ELSE CHOOSE x \in throwing : \A y \in throwing : x <= y
      inserts == IF failedAt = 0 THEN n ELSE failedAt \div 2
      audits == IF failedAt = 0 THEN n ELSE (failedAt - 1) \div 2
      new == (tx.nextId + 1)..(tx.nextId + inserts)
  IN [buyers |-> [id \in DOMAIN tx.buyers \cup new |->
                    IF id \in new THEN Row(id - tx.nextId) ELSE tx.buyers[id]],
      history |-> tx.history \o
                    [k \in 1..audits |->
                       [buyer_id |-> tx.nextId + k, changed_by |-> actor,
                        changed_at |-> now,
                        diff |-> [action |-> "imported", data |-> validRows[k]]]],
      nextId |-> tx.nextId + inserts,
      inserted |-> [k \in 1..inserts |-> tx.nextId + k],
      failedAt |-> failedAt]

(* ROLLBACK discards the transaction's view, COMMIT publishes it *)
RollbackMutKeepsWrites(db, tx) ==
  [db EXCEPT !.buyers = tx.buyers, !.history = tx.history, !.nextId = tx.nextId]
Rollback(db, tx) == db
Commit(db, tx, now) ==
  [db EXCEPT !.buyers = tx.buyers, !.history = tx.history, !.nextId = tx.nextId,
             !.clock = now]

(* the row-count checks: rows.length === 0, rows.length > 200 *)
NoRows(n) == n = 0
TooManyRowsMutInclusive(n) == n >= MaxImportRows
TooManyRows(n) == n > MaxImportRows

(* the validation gate: errors.length > 0 *)
GateClosedMutFirstRowOnly(parsed) == Len(parsed) > 0 /\ ~parsed[1].ok
GateClosed(parsed) == \E i \in 1..Len(parsed) : ~parsed[i].ok

importLeads(db, actor, rows, failAt) ==
  LET n == Len(rows)
      base == BaseResp("import", actor, 0, NoPayload, rows)
      parsed == [i \in 1..n |-> csvRowSchema(processedRow(rows[i]))]
      index == [i \in 1..n |-> i - 1]
      Valid(ix) == parsed[ix + 1].ok
      Invalid(ix) == ~parsed[ix + 1].ok
      validIx == SelectSeq(index, Valid)
      badIx == SelectSeq(index, Invalid)
      validRows == [k \in 1..Len(validIx) |-> parsed[validIx[k] + 1].data]
      errors == [k \in 1..Len(badIx) |-> [row |-> RowNumber(badIx[k])]]
      now == db.clock + 1
      tx == TxRows([buyers |-> db.buyers, history |-> db.history, nextId |-> db.nextId,
                    inserted |-> <<>>, failedAt |-> 0],
                   validRows, actor, now, failAt)
  IN IF NoRows(n)
       THEN Reply(db, [base EXCEPT !.status = 400, !.error = "CSV file is empty"])
     ELSE IF TooManyRows(n)
       THEN Reply(db, [base EXCEPT
                         !.status = 400,
                         !.error = "CSV file cannot contain more than 200 rows"])
     ELSE IF GateClosed(parsed)
       THEN Reply(db, [base EXCEPT !.status = 400, !.errors = errors,
                                   !.error = "Validation failed for some rows",
                                   !.validRowsCount = Len(validRows),
                                   !.totalRowsCount = n])
     ELSE IF tx.failedAt # 0
       THEN Reply(Rollback(db, tx),
                  [base EXCEPT !.status = 500, !.failedAt = tx.failedAt])
     ELSE Reply(Commit(db, tx, now),
                [base EXCEPT !.status = 200, !.importedCount = Len(tx.inserted)])

---------------------------------------------------------------------------
(* GET /api/buyers: filtersSchema and the list query *)

QueryKeys ==
  {"city", "propertyType", "status", "timeline", "search",
   "page", "limit", "sortBy", "sortOrder"}
NoQuery == [k \in QueryKeys |-> None]

SortByEnum == {"updatedAt", "fullName", "createdAt"}
SortOrderEnum == {"asc", "desc"}

(* Number(s) of z.coerce.number(): "" is 0, a digit its value, else NaN (-1) *)
CoerceNumber(s) == IF s = "" THEN 0 ELSE ParseInt(s)

DefaultLimit == 10
MaxLimit == 100

(* filtersSchema.parse(req.query): the keys it rejects, and the parsed      *)
(* object.  Where the literal "" matched, page and limit stay "": they are  *)
(* kept here as 0, the number "" becomes in arithmetic, and the handler     *)
(* looks at the query for the "" itself.                                    *)
filtersSchema(q) ==
  LET EnumOrEmpty(k, E) == q[k] = None \/ Val(q[k]) \in E \cup {""}
      NumOrEmpty(k, capped) ==
        \/ q[k] = None
        \/ Val(q[k]) = ""
        \/ /\ CoerceNumber(Val(q[k])) >= 1
           /\ capped => CoerceNumber(Val(q[k])) <= MaxLimit
      issues ==
        {k \in QueryKeys :
           CASE k = "city" -> ~EnumOrEmpty(k, CityEnum)
             [] k = "propertyType" -> ~EnumOrEmpty(k, PropertyTypeEnum)
             [] k = "status" -> ~EnumOrEmpty(k, StatusEnum)
             [] k = "timeline" -> ~EnumOrEmpty(k, TimelineEnum)
             [] k = "search" -> FALSE
             [] k = "page" -> ~NumOrEmpty(k, FALSE)
             [] k = "limit" -> ~NumOrEmpty(k, TRUE)
             [] k = "sortBy" -> ~EnumOrEmpty(k, SortByEnum)
             [] k = "sortOrder" -> ~EnumOrEmpty(k, SortOrderEnum)}
      Num(k, dflt) == IF q[k] = None THEN dflt ELSE CoerceNumber(Val(q[k]))
      data == [k \in QueryKeys |->
                 CASE k = "page" -> Some(Num(k, 1))
                   [] k = "limit" -> Some(Num(k, DefaultLimit))
                   [] k = "sortBy" -> IF q[k] = None THEN Some("updatedAt") ELSE q[k]
                   [] k = "sortOrder" -> IF q[k] = None THEN Some("desc") ELSE q[k]
                   [] OTHER -> q[k]]
  IN [ok |-> issues = {}, data |-> data, issues |-> issues]

(* validSortColumns[sortBy]: a missing key reads as undefined *)
validSortColumns(sortBy) ==
  CASE sortBy = "updatedAt" -> "b.updated_at"
    [] sortBy = "fullName" -> "b.full_name"
    [] sortBy = "createdAt" -> "b.created_at"
    [] OTHER -> "undefined"

SortColumns == {"b.updated_at", "b.full_name", "b.created_at"}

(* the WHERE clause: one equality per filter that is truthy *)
Matches(row, f) ==
  /\ TruthyStr(f.city) => row.city = f.city
  /\ TruthyStr(f.propertyType) => row.property_type = f.propertyType
  /\ TruthyStr(f.status) => row.status = f.status
  /\ TruthyStr(f.timeline) => row.timeline = f.timeline

(* the order of the full names of the model under the database collation *)
NameOrder == <<"Asha Rao", "Bina Shah">>
Collate(name) == CHOOSE i \in 1..Len(NameOrder) : NameOrder[i] = name

SortKey(row, column) ==
  CASE column = "b.updated_at" -> row.updated_at
    [] column = "b.created_at" -> row.created_at
    [] column = "b.full_name" -> Collate(Val(row.full_name))

(* ORDER BY column direction over the rows ids; rows with equal keys come   *)
(* in the order the executor happens to produce, here the order of tie      *)
RECURSIVE OrderBy(_, _, _, _, _)
OrderBy(table, ids, column, descending, tie) ==
  IF ids = {} THEN <<>>
  ELSE LET Pos(id) == CHOOSE i \in 1..Len(tie) : tie[i] = id
           Key(id) == SortKey(table[id], column)
           Before(x, y) ==
             \/ (IF descending THEN Key(x) > Key(y) ELSE Key(x) < Key(y))
             \/ Key(x) = Key(y) /\ Pos(x) < Pos(y)
           first == CHOOSE x \in ids : \A y \in ids \ {x} : Before(x, y)
       IN <<first>> \o OrderBy(table, ids \ {first}, column, descending, tie)

(* LIMIT limit OFFSET offset *)
Window(rows, limit, offset) ==
  IF offset >= Len(rows) THEN <<>>
  ELSE SubSeq(rows, offset + 1, IF offset + limit > Len(rows) THEN Len(rows) ELSE offset + limit)

(* Math.ceil(totalCount / limit) *)
Ceil(n, d) == (n + d - 1) \div d

(* result.rows.length > 0 ? parseInt(result.rows[0].total_count) : 0, where *)
(* total_count is the window count over all rows matching the filters      *)
TotalCount(rows, matching) == IF Len(rows) > 0 THEN Cardinality(matching) ELSE 0

(* router.get("/"); search is not supplied.  The query fails, and the catch *)
(* answers 500, when ORDER BY names no column, when OFFSET is negative and  *)
(* when the LIMIT parameter is the empty string.                            *)
listLeads(db, actor, q, tie) ==
  LET base == [BaseResp("list", actor, 0, NoPayload, <<>>) EXCEPT !.query = q]
      parsed == filtersSchema(q)
      f == parsed.data
      page == Val(f.page)
      limit == Val(f.limit)
      column == validSortColumns(Val(f.sortBy))
      matching == {id \in DOMAIN db.buyers : Matches(db.buyers[id], f)}
      sorted == OrderBy(db.buyers, matching, column, Val(f.sortOrder) = "desc", tie)
      offset == (page - 1) * limit
      rows == Window(sorted, limit, offset)
      totalCount == TotalCount(rows, matching)
      totalPages == Ceil(totalCount, limit)
  IN IF ~parsed.ok THEN Reply(db, [base EXCEPT !.status = 500])
     ELSE IF column \notin SortColumns
       THEN Reply(db, [base EXCEPT !.status = 500, !.orderBy = Some(column)])
     ELSE IF offset < 0 \/ q.limit = Some("")
       THEN Reply(db, [base EXCEPT !.status = 500, !.orderBy = Some(column)])
     ELSE Reply(db, [base EXCEPT
                       !.status = 200, !.orderBy = Some(column), !.buyers = rows,
                       !.pagination = Some([page |-> page, limit |-> limit,
                                            totalCount |-> totalCount,
                                            totalPages |-> totalPages,
                                            hasNext |-> page < totalPages,
                                            hasPrev |-> page > 1])])

---------------------------------------------------------------------------
(* GET /api/buyers/export: the rows written to the CSV file *)

(* array_to_string(b.tags, ','): NULL and the empty array give no text *)
RECURSIVE ArrayToString(_)
ArrayToString(tags) ==
  IF tags = <<>> THEN <<>>
  ELSE IF Len(tags) = 1 THEN tags[1]
  ELSE tags[1] \o <<",">> \o ArrayToString(Tail(tags))

(* the cell the CSV writer emits for a column: NULL is the empty cell, a   *)
(* number its decimal text; the CSV parser of the import reads it back as  *)
(* that string                                                             *)
CsvCell(f, column) ==
  IF f = "tags" THEN (IF column = None THEN <<>> ELSE ArrayToString(Val(column)))
  ELSE IF column = None THEN ""
  ELSE IF f \in {"budgetMin", "budgetMax"} THEN ToString(Val(column))
  ELSE Val(column)

ExportRow(row) ==
  [k \in PayloadKeys |-> IF k \in Fields THEN Some(CsvCell(k, row[fieldMapping[k]]))
                                        ELSE None]

(* router.get("/export"); search is not supplied *)
exportLeads(db, actor, q, tie) ==
  LET base == [BaseResp("export", actor, 0, NoPayload, <<>>) EXCEPT !.query = q]
      parsed == filtersSchema(q)
      f == parsed.data
      column == validSortColumns(Val(f.sortBy))
      matching == {id \in DOMAIN db.buyers : Matches(db.buyers[id], f)}
      sorted == OrderBy(db.buyers, matching, column, Val(f.sortOrder) = "desc", tie)
  IN IF ~parsed.ok THEN Reply(db, [base EXCEPT !.status = 500])
     ELSE IF column \notin SortColumns
       THEN Reply(db, [base EXCEPT !.status = 500, !.orderBy = Some(column)])
     ELSE Reply(db, [base EXCEPT
                       !.status = 200, !.orderBy = Some(column), !.buyers = sorted,
                       !.batch = [k \in 1..Len(sorted) |-> ExportRow(db.buyers[sorted[k]])]])

---------------------------------------------------------------------------
(* State *)

VARIABLES
  buyers,              \* table buyers: id -> row
  history,             \* table buyer_history, in insertion order
  clock,               \* CURRENT_TIMESTAMP of the last committed write
  nextId,              \* number of lead ids allocated so far
  resp,                \* the last request served and its response
  partialKeepsChecks,  \* whether the partial schema of this build keeps the refinements
  inflight             \* the update requests served statement by statement

vars == <<buyers, history, clock, nextId, resp, partialKeepsChecks, inflight>>

(* An update served statement by statement: pc is the await the handler is *)
(* at ("read": SELECT done and checks passed, "written": UPDATE done,      *)
(* "done": answered), currentBuyer the row its SELECT returned,            *)
(* updatedBuyer the row its UPDATE returned, wroteAt the timestamp of its  *)
(* UPDATE, status the answer.                                              *)
Requests == {"r1", "r2"}
Idle ==
  [pc |-> "idle", actor |-> "admin", id |-> 0, payload |-> NoPayload,
   currentBuyer |-> None, updatedBuyer |-> None, wroteAt |-> 0, status |-> 0]

db == [buyers |-> buyers, history |-> history, clock |-> clock, nextId |-> nextId]

Init ==
  /\ buyers = <<>>
  /\ history = <<>>
  /\ clock = 0
  /\ nextId = 0
  /\ resp = BaseResp("none", "admin", 0, NoPayload, <<>>)
  /\ partialKeepsChecks \in BOOLEAN
  /\ inflight = [r \in Requests |-> Idle]

(* the handler ran: its store and response replace the current ones *)
Serve(out) ==
  /\ out.db.clock <= MaxClock
  /\ out.db.nextId <= MaxLeads
  /\ buyers' = out.db.buyers
  /\ history' = out.db.history
  /\ clock' = out.db.clock
  /\ nextId' = out.db.nextId
  /\ resp' = out.resp
  /\ UNCHANGED <<partialKeepsChecks, inflight>>

LeadIds == 1..MaxLeads

CreateLead(actors, payloads, faults) ==
  \E a \in actors, p \in payloads, f \in faults : \E out \in {createLead(db, a, p, f)} : Serve(out)

UpdateLead(actors, payloads, tokens, faults) ==
  \E a \in actors, id \in LeadIds, p \in payloads, t \in tokens, f \in faults :
    \E out \in {updateLead(db, a, id, [p EXCEPT !.updatedAt = t], partialKeepsChecks, f)} :
      Serve(out)

DeleteLead(actors, faults) ==
  \E a \in actors, id \in LeadIds, f \in faults : \E out \in {deleteLead(db, a, id, f)} : Serve(out)

RECURSIVE Orderings(_)
Orderings(S) ==
  IF S = {} THEN {<<>>}
  ELSE UNION {{<<x>> \o rest : rest \in Orderings(S \ {x})} : x \in S}

ListLeads(actors, queries) ==
  \E a \in actors, q \in queries, tie \in Orderings(DOMAIN buyers) :
    \E out \in {listLeads(db, a, q, tie)} : Serve(out)

ExportLeads(actors, queries) ==
  \E a \in actors, q \in queries, tie \in Orderings(DOMAIN buyers) :
    \E out \in {exportLeads(db, a, q, tie)} : Serve(out)

ImportLeads(actors, batches, failAts) ==
  \E a \in actors, rows \in batches, failAt \in failAts :
    \E out \in {importLeads(db, a, rows, failAt)} : Serve(out)

(* router.put("/:id") up to the UPDATE statement: parse, SELECT, the *)
(* ownership and token checks, the SET list                          *)
ReadUpdate(r, actors, payloads, tokens) ==
  \E a \in actors, id \in LeadIds, p0 \in payloads, t \in tokens :
    LET p == [p0 EXCEPT !.updatedAt = t]
        v == updateBuyerSchema(p, partialKeepsChecks)
        base == BaseResp("update", a, id, p, <<>>)
        req == [Idle EXCEPT !.actor = a, !.id = id, !.payload = p]
        Answer(q, status) ==
          /\ inflight' = [inflight EXCEPT ![r] = [q EXCEPT !.pc = "done", !.status = status]]
          /\ resp' = [base EXCEPT !.status = status]
    IN /\ inflight[r].pc = "idle"
       /\ IF ~v.ok THEN Answer(req, 400)
          ELSE IF id \notin DOMAIN buyers THEN Answer(req, 404)
          ELSE
            LET currentBuyer == buyers[id]
                read == [req EXCEPT !.currentBuyer = Some(currentBuyer)]
            IN IF ~checkOwnership(a, currentBuyer.owner_id) THEN Answer(read, 403)
               ELSE IF StaleToken(v.data, currentBuyer)
                 THEN /\ inflight' = [inflight EXCEPT ![r] = [read EXCEPT !.pc = "done",
                                                                         !.status = 409]]
                      /\ resp' = [base EXCEPT !.status = 409,
                                              !.currentUpdatedAt = Some(currentBuyer.updated_at)]
               ELSE IF {f \in Fields : v.data[f] # None} = {} THEN Answer(read, 400)
               ELSE /\ inflight' = [inflight EXCEPT ![r] = [read EXCEPT !.pc = "read"]]
                    /\ UNCHANGED resp
       /\ UNCHANGED <<buyers, history, clock, nextId, partialKeepsChecks>>

(* the UPDATE ... WHERE id = $n RETURNING * of router.put("/:id") *)
WriteUpdate(r) ==
  LET q == inflight[r]
      v == updateBuyerSchema(q.payload, partialKeepsChecks)
      supplied == {f \in Fields : v.data[f] # None}
      now == clock + 1
      matched == UpdateWhere(buyers, q.id, Val(q.currentBuyer))
      row == UpdateSet(buyers[q.id], v.data, supplied, now)
  IN /\ q.pc = "read"
     /\ IF matched = {}
          THEN /\ inflight' = [inflight EXCEPT ![r] = [q EXCEPT !.pc = "written"]]
               /\ UNCHANGED <<buyers, clock, resp>>
        ELSE IF ~TableChecks(row)
          THEN /\ inflight' = [inflight EXCEPT ![r] = [q EXCEPT !.pc = "done", !.status = 500]]
               /\ resp' = [BaseResp("update", q.actor, q.id, q.payload, <<>>)
                             EXCEPT !.status = 500, !.fault = "write"]
               /\ UNCHANGED <<buyers, clock>>
        ELSE /\ now <= MaxClock
             /\ buyers' = [buyers EXCEPT ![q.id] = row]
             /\ clock' = now
             /\ inflight' = [inflight EXCEPT ![r] = [q EXCEPT !.pc = "written",
                                                              !.updatedBuyer = Some(row),
                                                              !.wroteAt = now]]
             /\ UNCHANGED resp
     /\ UNCHANGED <<history, nextId, partialKeepsChecks>>

(* the recordHistory call and the answer of router.put("/:id"); the changes *)
(* are those computed from the row the SELECT returned                      *)
AuditUpdate(r) ==
  LET q == inflight[r]
      v == updateBuyerSchema(q.payload, partialKeepsChecks)
      currentBuyer == Val(q.currentBuyer)
      changed == {f \in Fields : /\ v.data[f] # None
                                 /\ StrictlyDiffers(f, currentBuyer[fieldMapping[f]], v.data[f])}
      changes == [f \in changed |->
                    [from |-> currentBuyer[fieldMapping[f]], to |-> v.data[f]]]
      base == BaseResp("update", q.actor, q.id, q.payload, <<>>)
      refused == changed # {} /\ ~HistoryForeignKey(buyers, q.id)
  IN /\ q.pc = "written"
     /\ history' = IF changed = {} \/ refused THEN history
                   ELSE recordHistory(history, q.id, q.actor, clock,
                                      [action |-> "updated", changes |-> changes])
     /\ inflight' = [inflight EXCEPT ![r] =
                       [q EXCEPT !.pc = "done", !.status = IF refused THEN 500 ELSE 200]]
     /\ resp' = IF refused THEN [base EXCEPT !.status = 500, !.fault = "history"]
                ELSE [base EXCEPT !.status = 200, !.buyer = q.updatedBuyer]
     /\ UNCHANGED <<buyers, clock, nextId, partialKeepsChecks>>

---------------------------------------------------------------------------
(* Requests *)

BasePayload ==
  [NoPayload EXCEPT !.fullName = Some("Asha Rao"), !.phone = Some("9876543210"),
                    !.city = Some("Mohali"), !.propertyType = Some("Plot"),
                    !.purpose = Some("Buy"), !.timeline = Some("0-3m"),
                    !.source = Some("Website")]

(* an Apartment without BHK: rejected by the first refinement *)
NoBhkPayload == [BasePayload EXCEPT !.propertyType = Some("Apartment")]

(* CSV rows: every cell is a string; the tags cell is a sequence of characters *)
BaseRow == BasePayload
FlatRow ==
  [BasePayload EXCEPT !.propertyType = Some("Apartment"), !.bhk = Some("2"),
                      !.budgetMin = Some("1"), !.budgetMax = Some("2"),
                      !.tags = Some(<<"a", ",", " ", "b">>)]
NoBhkRow == [BasePayload EXCEPT !.propertyType = Some("Apartment")]

---------------------------------------------------------------------------
(* Spec: the four mutations served one after the other.  u1 creates leads,   *)
(* the admin imports leads; u1, u2 and the admin update and delete them;     *)
(* updates carry no token.                                                   *)

FlowUpdates ==
  { [NoPayload EXCEPT !.status = Some("Qualified")],
    [NoPayload EXCEPT !.fullName = Some("Asha Rao")] }

(* a phone number the schema rejects *)
BadPhoneUpdate == [NoPayload EXCEPT !.phone = Some("12345")]

QualifyUpdate == [NoPayload EXCEPT !.status = Some("Qualified")]

Next ==
  \/ CreateLead({"u1"}, {BasePayload}, {"none"})
  \/ UpdateLead(Users, {QualifyUpdate, BadPhoneUpdate}, {None}, {"none"})
  \/ DeleteLead(Users, {"none"})
  \/ ImportLeads({"admin"}, {<<BaseRow>>}, {0})

Spec == Init /\ [][Next]_vars

---------------------------------------------------------------------------
(* SpecToken: one user; updates carry no token, the current one or an older  *)
(* one.                                                                      *)

Tokens == {None} \cup {Some(ToISOString(t)) : t \in 1..MaxClock}

NextToken ==
  \/ CreateLead({"u1"}, {BasePayload}, {"none"})
  \/ UpdateLead({"u1"}, FlowUpdates, Tokens, {"none"})
  \/ DeleteLead({"u1"}, {"none"})
  \/ ImportLeads({"u1"}, {<<BaseRow>>}, {0})

SpecToken == Init /\ [][NextToken]_vars

---------------------------------------------------------------------------
(* SpecData: one user; full records whose budget pair is ordered, reversed,  *)
(* half absent or has a zero, with and without BHK; partial updates of a     *)
(* single budget field, of the property type alone or of bhk alone; one-row  *)
(* imports.                                                                  *)

WithBudgets(p, lo, hi) == [p EXCEPT !.budgetMin = lo, !.budgetMax = hi]

DataCreates ==
  { WithBudgets(BasePayload, Some(1), Some(2)),
    WithBudgets(BasePayload, Some(2), None),
    WithBudgets(BasePayload, Some(2), Some(0)),
    WithBudgets(BasePayload, Some(2), Some(1)),
    NoBhkPayload,
    [BasePayload EXCEPT !.propertyType = Some("Villa"), !.bhk = Some("3")] }

DataUpdates ==
  { [NoPayload EXCEPT !.budgetMin = Some(2)],
    [NoPayload EXCEPT !.budgetMax = Some(1)],
    [NoPayload EXCEPT !.budgetMax = Some(0)],
    [NoPayload EXCEPT !.propertyType = Some("Apartment")],
    [NoPayload EXCEPT !.bhk = Some("2")] }

DataBatches ==
  { <<FlatRow>>, <<NoBhkRow>>,
    <<WithBudgets(BaseRow, Some("2"), Some("1"))>>,
    <<WithBudgets(BaseRow, Some("2"), Some("0"))>> }

MaxDataWrites == 2     \* committed writes in SpecData
MaxDataLeads == 1      \* lead ids allocated in SpecData

DataBound == clock' <= MaxDataWrites /\ nextId' <= MaxDataLeads

NextData ==
  \/ CreateLead({"u1"}, DataCreates, {"none"}) /\ DataBound
  \/ UpdateLead({"u1"}, DataUpdates, {None}, {"none"}) /\ DataBound
  \/ DeleteLead({"u1"}, {"none"}) /\ DataBound
  \/ ImportLeads({"u1"}, DataBatches, {0}) /\ DataBound

SpecData == Init /\ [][NextData]_vars

---------------------------------------------------------------------------
(* SpecImport: one user imports batches of one to three rows, each row      *)
(* valid (an Apartment with BHK, budgets and tags) or invalid (an Apartment  *)
(* without BHK), and deletes leads.  A batch of valid rows is also run with  *)
(* a failure at any one statement of its transaction; a batch with an        *)
(* invalid row executes no statement.                                        *)

ValidBatches == {<<FlatRow>>, <<FlatRow, FlatRow>>, <<FlatRow, FlatRow, FlatRow>>}

ImportBatches ==
  ValidBatches \cup {<<NoBhkRow>>, <<FlatRow, NoBhkRow>>,
                     <<FlatRow, FlatRow, NoBhkRow>>,
                     <<NoBhkRow, FlatRow, NoBhkRow>>}

(* the statements of the longest transaction *)
FailPoints == UNION {1..(2 * Len(rows)) : rows \in ValidBatches}

NextImport ==
  \/ ImportLeads({"u1"}, ImportBatches, {0})
  \/ ImportLeads({"u1"}, ValidBatches, FailPoints)
  \/ DeleteLead({"u1"}, {"none"})

SpecImport == Init /\ [][NextImport]_vars

---------------------------------------------------------------------------
(* SpecValidate: buyerSchema applied to one candidate record, drawn with    *)
(* every pair of budget figures, every property type and every BHK class.   *)

MaxFigure == 3

Candidates ==
  { [BasePayload EXCEPT !.budgetMin = lo, !.budgetMax = hi,
                        !.propertyType = Some(t), !.bhk = b] :
      lo \in {None} \cup {Some(n) : n \in 0..MaxFigure},
      hi \in {None} \cup {Some(n) : n \in 0..MaxFigure},
      t \in PropertyTypeEnum,
      b \in {None} \cup {Some(c) : c \in BHKEnum} }

InitValidate ==
  /\ buyers = <<>>
  /\ history = <<>>
  /\ clock = 0
  /\ nextId = 0
  /\ partialKeepsChecks \in BOOLEAN
  /\ inflight = [r \in Requests |-> Idle]
  /\ \E p \in Candidates : resp = BaseResp("candidate", "u1", 0, p, <<>>)

(* buyerSchema.parse(candidate): 200 when it returns, 400 when it throws *)
Validate ==
  /\ resp.op = "candidate"
  /\ resp' = [resp EXCEPT !.op = "validate",
                          !.status = IF buyerSchema(resp.payload).ok THEN 200 ELSE 400]
  /\ UNCHANGED <<buyers, history, clock, nextId, partialKeepsChecks, inflight>>

SpecValidate == InitValidate /\ [][Validate]_vars

---------------------------------------------------------------------------
(* SpecList: u1 creates leads in two cities and qualifies them, and lists   *)
(* them: with every sortBy and sortOrder on the first page, and with every  *)
(* page and limit, with and without a city filter, in the default order.    *)

BinaPayload ==
  [BasePayload EXCEPT !.fullName = Some("Bina Shah"), !.city = Some("Chandigarh")]

SortQueries ==
  { [NoQuery EXCEPT !.sortBy = by, !.sortOrder = ord] :
      by \in {None} \cup {Some(x) : x \in SortByEnum \cup {"", "price"}},
      ord \in {None} \cup {Some(x) : x \in SortOrderEnum \cup {""}} }

PageQueries ==
  { [NoQuery EXCEPT !.page = pg, !.limit = lim, !.city = c] :
      pg \in {None} \cup {Some(ToString(n)) : n \in 1..(MaxLeads + 1)},
      lim \in {None} \cup {Some(ToString(n)) : n \in 1..MaxLeads},
      c \in {None, Some("Mohali")} }

NextList ==
  \/ CreateLead({"u1"}, {BasePayload, BinaPayload}, {"none"})
  \/ UpdateLead({"u1"}, {QualifyUpdate}, {None}, {"none"})
  \/ ListLeads({"u1"}, SortQueries \cup PageQueries)

SpecList == Init /\ [][NextList]_vars

---------------------------------------------------------------------------
(* SpecRoundTrip: u1 creates a Plot lead and an Apartment lead with BHK,    *)
(* budgets and tags, updates a budget, exports all leads and uploads the    *)
(* exported file to the import.                                             *)

FlatPayload ==
  [BasePayload EXCEPT !.fullName = Some("Bina Shah"),
                      !.propertyType = Some("Apartment"), !.bhk = Some("2"),
                      !.budgetMin = Some(1), !.budgetMax = Some(2),
                      !.tags = Some(<< <<"a">>, <<"b">> >>)]

BudgetUpdate == [NoPayload EXCEPT !.budgetMin = Some(0)]

(* the file of the last export is uploaded as it is *)
Reimport(actors) ==
  /\ resp.op = "export" /\ resp.status = 200
  /\ ImportLeads(actors, {resp.batch}, {0})

NextRoundTrip ==
  \/ CreateLead({"u1"}, {BasePayload, FlatPayload}, {"none"})
  \/ UpdateLead({"u1"}, {BudgetUpdate}, {None}, {"none"})
  \/ ExportLeads({"u1"}, {NoQuery})
  \/ Reimport({"u1"})

SpecRoundTrip == Init /\ [][NextRoundTrip]_vars

---------------------------------------------------------------------------
(* SpecCap: u1 imports files of 0, 1, 200 and 201 rows, all valid, all      *)
(* invalid, or valid but for the last row; the transaction of a valid file  *)
(* may fail at its first or at its last statement.  u1 also deletes leads.  *)

Repeat(row, n) == [i \in 1..n |-> row]

CapSizes == {0, 1, MaxImportRows, MaxImportRows + 1}

CapBatches ==
  UNION { {Repeat(FlatRow, n), Repeat(NoBhkRow, n),
           [Repeat(FlatRow, n) EXCEPT ![n] = NoBhkRow]} : n \in CapSizes \ {0} }
    \cup {<<>>}

NextCap ==
  \/ ImportLeads({"u1"}, CapBatches, {0})
  \/ \E n \in CapSizes \ {0} : ImportLeads({"u1"}, {Repeat(FlatRow, n)}, {1, 2 * n})
  \/ DeleteLead({"u1"}, {"none"})

SpecCap == Init /\ [][NextCap]_vars

---------------------------------------------------------------------------
(* SpecOrder: u1 creates and deletes leads; u1, u2 and the admin update     *)
(* existing and missing leads with an empty payload, a valid one and one    *)
(* the schema rejects, without a token and with every token.                *)

NextOrder ==
  \/ CreateLead({"u1"}, {BasePayload}, {"none"})
  \/ UpdateLead(Users, {NoPayload, QualifyUpdate, BadPhoneUpdate}, Tokens, {"none"})
  \/ DeleteLead({"u1"}, {"none"})

SpecOrder == Init /\ [][NextOrder]_vars

---------------------------------------------------------------------------
(* SpecRace: u1 creates and deletes leads while two of u1's updates, one    *)
(* of the name and one of the status, with or without a token, are served  *)
(* statement by statement, so that the statements of one request run       *)
(* between those of the other.                                             *)

RenameUpdate == [NoPayload EXCEPT !.fullName = Some("Bina Shah")]

(* no token, or the updated_at of the first lead as created *)
RaceTokens == {None, Some(ToISOString(1))}

NextRace ==
  \/ CreateLead({"u1"}, {BasePayload}, {"none"})
  \/ DeleteLead({"u1"}, {"none"})
  \/ ReadUpdate("r1", {"u1"}, {RenameUpdate}, RaceTokens)
  \/ ReadUpdate("r2", {"u1"}, {QualifyUpdate}, RaceTokens)
  \/ \E r \in Requests : WriteUpdate(r)
  \/ \E r \in Requests : AuditUpdate(r)

SpecRace == Init /\ [][NextRace]_vars

---------------------------------------------------------------------------
(* SpecFault: u1 creates, updates and deletes leads while the store may     *)
(* fail the lead statement or the audit statement of a create or update.   *)

StoreFaults == {"none", "write", "history"}

NextFault ==
  \/ CreateLead({"u1"}, {BasePayload}, StoreFaults)
  \/ UpdateLead({"u1"}, {QualifyUpdate, RenameUpdate}, {None}, StoreFaults)
  \/ DeleteLead({"u1"}, {"none"})

SpecFault == Init /\ [][NextFault]_vars

---------------------------------------------------------------------------
(* Claims on SpecToken *)

(* the request of this step targets a lead that exists before the step *)
HitsLead(op) == resp'.op = op /\ resp'.id \in DOMAIN buyers

(* C1: sequential optimistic concurrency.  An update whose token is the     *)
(* lead's stored updatedAt succeeds and moves updatedAt to a new, later     *)
(* value; an update whose token is any other instant (in particular the     *)
(* value a committed update has replaced) is answered 409 with the lead's   *)
(* current updatedAt, and neither table changes.                            *)
C1_StaleTokenConflicts ==
  [][ (HitsLead("update") /\ resp'.payload.updatedAt # None) =>
        LET id == resp'.id
            T == buyers[id].updated_at
            token == GetTime(Val(resp'.payload.updatedAt))
        IN /\ token = T =>
                /\ resp'.status = 200
                /\ buyers'[id].updated_at > T
                /\ resp'.buyer = Some(buyers'[id])
           /\ token # T =>
                /\ resp'.status = 409
                /\ resp'.currentUpdatedAt = Some(T)
                /\ buyers' = buyers
                /\ history' = history ]_vars

(* a lead created at T0 and since updated: the update still carrying T0 got *)
(* 409 and the newer updatedAt                                              *)
C1_Witness ==
  /\ resp.op = "update" /\ resp.status = 409
  /\ resp.id \in DOMAIN buyers
  /\ resp.payload.updatedAt = Some(ToISOString(buyers[resp.id].created_at))
  /\ buyers[resp.id].updated_at > buyers[resp.id].created_at
  /\ resp.currentUpdatedAt = Some(buyers[resp.id].updated_at)
  /\ \E k \in 1..Len(history) :
        /\ history[k].buyer_id = resp.id
        /\ history[k].diff.action = "updated"
        /\ history[k].changed_at = buyers[resp.id].updated_at

(* C5: a successful update whose supplied fields all equal the stored       *)
(* values leaves both tables as they were (no audit entry, same updatedAt). *)
C5_NoOpUpdateWritesNothing ==
  [][ ( /\ HitsLead("update") /\ resp'.status = 200
        /\ \A f \in Fields :
              resp'.payload[f] # None =>
                 resp'.payload[f] = buyers[resp'.id][fieldMapping[f]] )
      => (buyers' = buyers /\ history' = history) ]_vars

(* C16: update frame.  A successful update changes, on the lead it names,   *)
(* only the columns of the fields present in the payload and updated_at;    *)
(* every other lead is left as it was.                                      *)
C16_UpdateTouchesOnlySuppliedFields ==
  [][ (HitsLead("update") /\ resp'.status = 200) =>
        LET id == resp'.id
            absent == {f \in Fields : resp'.payload[f] = None}
        IN /\ DOMAIN buyers' = DOMAIN buyers
           /\ \A f \in absent : buyers'[id][fieldMapping[f]] = buyers[id][fieldMapping[f]]
           /\ buyers'[id].owner_id = buyers[id].owner_id
           /\ buyers'[id].created_at = buyers[id].created_at
           /\ \A other \in DOMAIN buyers \ {id} : buyers'[other] = buyers[other] ]_vars

(* the fields listed by the updated audit rows this step appended *)
ListedChanges ==
  UNION {DOMAIN history'[k].diff.changes :
           k \in {j \in (Len(history) + 1)..Len(history') :
                    history'[j].diff.action = "updated"}}

(* C17: diff exactness.  The audit entry of a successful update lists field *)
(* f exactly when f is present in the payload and the stored value of f     *)
(* after the update differs from the one before.                            *)
C17_DiffListsExactlyChangedFields ==
  [][ (HitsLead("update") /\ resp'.status = 200) =>
        LET id == resp'.id
        IN ListedChanges =
             {f \in Fields : /\ resp'.payload[f] # None
                             /\ buyers'[id][fieldMapping[f]] # buyers[id][fieldMapping[f]]} ]_vars

---------------------------------------------------------------------------
(* Claims on Spec *)

(* history' is history followed by exactly n more rows *)
Appended(n) ==
  /\ Len(history') = Len(history) + n
  /\ SubSeq(history', 1, Len(history)) = history

(* exactly one of the rows appended in this step is about lead id, and it   *)
(* names the actor and the action                                           *)
OneEntryFor(id, actor, action) ==
  LET added == {k \in (Len(history) + 1)..Len(history') : history'[k].buyer_id = id}
  IN /\ Cardinality(added) = 1
     /\ \A k \in added : /\ history'[k].changed_by = actor
                         /\ history'[k].diff.action = action

(* C4: audit completeness.  Every create answered 201, every update         *)
(* answered 200 and every row of an import answered 200 appends exactly one *)
(* audit row, for the affected lead, naming the actor and the action.       *)
C4_OneAuditEntryPerMutation ==
  [][ /\ (resp'.op = "create" /\ resp'.status = 201) =>
           /\ resp'.id \in DOMAIN buyers' \ DOMAIN buyers
           /\ Appended(1)
           /\ OneEntryFor(resp'.id, resp'.actor, "created")
      /\ (resp'.op = "update" /\ resp'.status = 200) =>
           /\ resp'.id \in DOMAIN buyers
           /\ Appended(1)
           /\ OneEntryFor(resp'.id, resp'.actor, "updated")
      /\ (resp'.op = "import" /\ resp'.status = 200) =>
           LET new == DOMAIN buyers' \ DOMAIN buyers
           IN /\ Cardinality(new) = Len(resp'.batch)
              /\ resp'.importedCount = Len(resp'.batch)
              /\ Appended(Cardinality(new))
              /\ \A id \in new : OneEntryFor(id, resp'.actor, "imported") ]_vars

(* the audit log holds a created, an updated and an imported row *)
C4_Witness ==
  \E i, j, k \in 1..Len(history) :
     /\ history[i].diff.action = "created"
     /\ history[j].diff.action = "updated" /\ history[j].buyer_id = history[i].buyer_id
     /\ history[k].diff.action = "imported"

(* C6: owner invariant.  A lead that appears in a step is owned by the      *)
(* actor of that step's create or import; a lead that stays keeps its       *)
(* owner, whatever the step.                                                *)
C6_OwnerSetOnceByCreator ==
  [][ /\ \A id \in DOMAIN buyers' \ DOMAIN buyers :
           /\ resp'.op \in {"create", "import"}
           /\ buyers'[id].owner_id = resp'.actor
      /\ \A id \in DOMAIN buyers' \cap DOMAIN buyers :
           buyers'[id].owner_id = buyers[id].owner_id ]_vars

(* u1's lead after an admin's successful update, beside a lead the admin *)
(* imported                                                               *)
C6_Witness ==
  /\ resp.op = "update" /\ resp.status = 200 /\ resp.actor = "admin"
  /\ resp.id \in DOMAIN buyers /\ buyers[resp.id].owner_id = "u1"
  /\ \E k \in 1..Len(history) :
        /\ history[k].diff.action = "imported" /\ history[k].changed_by = "admin"
        /\ history[k].buyer_id \in DOMAIN buyers
        /\ buyers[history[k].buyer_id].owner_id = "admin"

(* C7: authorization.  An update or delete of an existing lead by an actor  *)
(* who is neither its owner nor an admin changes neither table and is       *)
(* answered 403 (an update whose payload the schema rejects is answered 400 *)
(* before the lead is read); the owner and an admin are never answered 403. *)
C7_OnlyOwnerOrAdmin ==
  [][ (resp'.op \in {"update", "delete"} /\ resp'.id \in DOMAIN buyers) =>
        LET allowed == resp'.actor = buyers[resp'.id].owner_id \/ resp'.actor = "admin"
            parses == resp'.op = "delete"
                        \/ ShapeIssues(resp'.payload, TRUE) = {}
        IN /\ ~allowed => /\ buyers' = buyers
                          /\ history' = history
                          /\ resp'.status = IF parses THEN 403 ELSE 400
           /\ allowed => resp'.status # 403 ]_vars

(* u2 was refused an update of u1's lead, which an admin had updated *)
C7_Witness ==
  /\ resp.op = "update" /\ resp.status = 403 /\ resp.actor = "u2"
  /\ resp.id \in DOMAIN buyers /\ buyers[resp.id].owner_id = "u1"
  /\ \E k \in 1..Len(history) :
        /\ history[k].buyer_id = resp.id /\ history[k].diff.action = "updated"
        /\ history[k].changed_by = "admin"

---------------------------------------------------------------------------
(* Claims on SpecData *)

(* C8: budget invariant I2.  Every stored lead with both budget columns     *)
(* set has budget_max >= budget_min.                                        *)
C8_StoredBudgetsOrdered ==
  \A id \in DOMAIN buyers :
     (buyers[id].budget_min # None /\ buyers[id].budget_max # None)
        => Val(buyers[id].budget_max) >= Val(buyers[id].budget_min)

(* a lead with both budgets stored, whose update to a budgetMax of 0 alone  *)
(* was refused by the store                                                 *)
C8_Witness ==
  /\ resp.op = "update" /\ resp.status = 500
  /\ resp.payload.budgetMax = Some(0) /\ resp.payload.budgetMin = None
  /\ resp.id \in DOMAIN buyers
  /\ buyers[resp.id].budget_min # None /\ buyers[resp.id].budget_max # None
  /\ Val(buyers[resp.id].budget_min) > 0

(* C9: bedroom-count invariant I1.  Every stored Apartment or Villa has a   *)
(* bhk value.                                                               *)
C9_StoredBhkPresent ==
  \A id \in DOMAIN buyers :
     Val(buyers[id].property_type) \in {"Apartment", "Villa"}
        => buyers[id].bhk # None

(* a Plot without bhk whose update of the property type alone, to           *)
(* Apartment, passed the partial schema and was refused by the store        *)
C9_Witness ==
  /\ resp.op = "update" /\ resp.status = 500
  /\ resp.payload.propertyType = Some("Apartment") /\ resp.payload.bhk = None
  /\ resp.id \in DOMAIN buyers
  /\ buyers[resp.id].property_type = Some("Plot") /\ buyers[resp.id].bhk = None

---------------------------------------------------------------------------
(* Claims on SpecImport *)

RowValid(row) == csvRowSchema(processedRow(row)).ok
InvalidRows(rows) == {i \in 1..Len(rows) : ~RowValid(rows[i])}

(* C2: import validation gate.  A batch of 1 .. 200 rows with at least one  *)
(* invalid row is answered 400, changes neither table, and its error list   *)
(* has exactly one entry per invalid row, carrying the row's 1-based        *)
(* position; validRowsCount counts the valid rows, totalRowsCount all rows. *)
C2_InvalidRowRejectsBatch ==
  [][ LET rows == resp'.batch
          bad == InvalidRows(rows)
          errors == resp'.errors
      IN ( /\ resp'.op = "import"
           /\ Len(rows) \in 1..MaxImportRows
           /\ bad # {} )
         => /\ resp'.status = 400
            /\ buyers' = buyers
            /\ history' = history
            /\ Len(errors) = Cardinality(bad)
            /\ {errors[k].row : k \in 1..Len(errors)} = bad
            /\ resp'.validRowsCount = Len(rows) - Cardinality(bad)
            /\ resp'.totalRowsCount = Len(rows) ]_vars

(* a three-row batch whose first and last rows are invalid *)
C2_Witness ==
  /\ resp.op = "import" /\ resp.status = 400
  /\ Len(resp.batch) = 3
  /\ InvalidRows(resp.batch) = {1, 3}
  /\ resp.errors = <<[row |-> 1], [row |-> 3]>>
  /\ resp.validRowsCount = 1

(* C3: import commit atomicity.  A batch of n valid rows either commits n   *)
(* leads with one imported audit row each (200), or, when a statement of    *)
(* the transaction fails, leaves both tables as they were (500).            *)
C3_ImportAllOrNothing ==
  [][ ( /\ resp'.op = "import"
        /\ Len(resp'.batch) \in 1..MaxImportRows
        /\ InvalidRows(resp'.batch) = {} )
      => LET n == Len(resp'.batch)
             new == DOMAIN buyers' \ DOMAIN buyers
         IN \/ /\ resp'.status = 200
               /\ resp'.failedAt = 0
               /\ Cardinality(new) = n
               /\ resp'.importedCount = n
               /\ \A id \in DOMAIN buyers : id \in DOMAIN buyers' /\ buyers'[id] = buyers[id]
               /\ Appended(n)
               /\ \A id \in new : OneEntryFor(id, resp'.actor, "imported")
            \/ /\ resp'.status = 500
               /\ resp'.failedAt # 0
               /\ buyers' = buyers
               /\ history' = history ]_vars

(* beside one lead imported earlier, a two-row import failed at the second  *)
(* row's audit insert, after three statements of its transaction had        *)
(* succeeded; the earlier lead and its audit row are all that is stored     *)
C3_Witness ==
  /\ resp.op = "import" /\ resp.status = 500
  /\ Len(resp.batch) = 2 /\ resp.failedAt = 4
  /\ DOMAIN buyers = {1} /\ Len(history) = 1

---------------------------------------------------------------------------
(* Claims on SpecValidate *)

BothBudgets(p) == p.budgetMin # None /\ p.budgetMax # None

(* C10: budget validation P2.  A candidate with both budgets present and    *)
(* budgetMax < budgetMin is rejected; the same candidate with the two       *)
(* swapped, or with either omitted, is accepted when it is valid otherwise. *)
C10_ReversedBudgetsRejected ==
  ( /\ resp.op = "validate"
    /\ BothBudgets(resp.payload)
    /\ Val(resp.payload.budgetMax) < Val(resp.payload.budgetMin) )
  => LET p == resp.payload
         otherwiseValid == buyerSchema([p EXCEPT !.budgetMin = None, !.budgetMax = None]).ok
     IN /\ resp.status = 400
        /\ otherwiseValid =>
             /\ buyerSchema([p EXCEPT !.budgetMin = p.budgetMax,
                                      !.budgetMax = p.budgetMin]).ok
             /\ buyerSchema([p EXCEPT !.budgetMin = None]).ok
             /\ buyerSchema([p EXCEPT !.budgetMax = None]).ok

(* the two budgets of p, when both present, are in order *)
BudgetsOrdered(p) ==
  BothBudgets(p) => Val(p.budgetMax) >= Val(p.budgetMin)

(* C11: bedroom-count validation P1.  A full record whose property type is  *)
(* Apartment or Villa and whose bhk is absent is rejected; a record that is *)
(* valid otherwise and whose property type is Plot, Office or Retail is     *)
(* accepted, with bhk absent and with every value of BHKEnum.               *)
C11_BhkRequiredForResidential ==
  resp.op = "validate" =>
    LET p == resp.payload
        type == Val(p.propertyType)
    IN /\ (type \in {"Apartment", "Villa"} /\ p.bhk = None) => resp.status = 400
       /\ (type \in {"Plot", "Office", "Retail"} /\ BudgetsOrdered(p)) => resp.status = 200

(* a Villa without bhk, budgets in order, was rejected *)
C11_Witness ==
  /\ resp.op = "validate" /\ resp.status = 400
  /\ resp.payload.propertyType = Some("Villa") /\ resp.payload.bhk = None
  /\ resp.payload.budgetMin = Some(1) /\ resp.payload.budgetMax = Some(2)

---------------------------------------------------------------------------
(* Claims on SpecList *)

(* the stored leads the filters of query q select *)
Matching(q) == {id \in DOMAIN buyers : Matches(buyers[id], q)}

(* C12: sort allow-list P7.  A list request whose sortBy is outside         *)
(* {updatedAt, fullName, createdAt} (its other parameters being valid)      *)
(* succeeds and is sorted by updated_at; the ORDER BY column of any list    *)
(* request is one of the three allow-listed columns.                        *)
C12_UnknownSortFallsBack ==
  (resp.op = "list" /\ filtersSchema([resp.query EXCEPT !.sortBy = None]).ok) =>
     /\ (resp.query.sortBy # None /\ Val(resp.query.sortBy) \notin SortByEnum)
           => resp.status = 200 /\ resp.orderBy = Some("b.updated_at")
     /\ resp.orderBy # None => Val(resp.orderBy) \in SortColumns

(* C14: total count independent of the page window.  A list request with    *)
(* page >= 1 and limit in 1 .. 100 succeeds and reports as totalCount the   *)
(* number of stored leads matching its filters, whatever the page; hasNext  *)
(* is page < ceil(totalCount / limit) and hasPrev is page > 1.              *)
C14_TotalCountIgnoresWindow ==
  ( /\ resp.op = "list"
    /\ filtersSchema(resp.query).ok
    /\ resp.query.page # Some("") /\ resp.query.limit # Some("")
    /\ Val(filtersSchema(resp.query).data.sortBy) \in SortByEnum )
  => LET f == filtersSchema(resp.query).data
         n == Cardinality(Matching(resp.query))
     IN /\ resp.status = 200
        /\ Val(resp.pagination).totalCount = n
        /\ Val(resp.pagination).hasNext = (Val(f.page) < Ceil(n, Val(f.limit)))
        /\ Val(resp.pagination).hasPrev = (Val(f.page) > 1)

---------------------------------------------------------------------------
(* Claims on SpecRoundTrip *)

(* rows a and b of table buyers agree on every domain field, tags as a set *)
SameDomainFields(a, b) ==
  /\ \A f \in Fields \ {"tags"} : a[fieldMapping[f]] = b[fieldMapping[f]]
  /\ LET TagSet(r) == IF r.tags = None THEN {}
                      ELSE {Val(r.tags)[i] : i \in 1..Len(Val(r.tags))}
     IN TagSet(a) = TagSet(b)

(* C13: export / import round trip P6.  Importing the rows of an export of  *)
(* one or more leads succeeds and inserts, for the k-th exported lead, a    *)
(* new lead equal to it on every domain field.                              *)
C13_ExportImportRoundTrip ==
  [][ ( /\ resp.op = "export" /\ resp.status = 200 /\ Len(resp.batch) >= 1
        /\ resp'.op = "import" /\ resp'.batch = resp.batch )
      => /\ resp'.status = 200
         /\ \A k \in 1..Len(resp.buyers) :
              /\ nextId + k \in DOMAIN buyers'
              /\ SameDomainFields(buyers'[nextId + k], buyers[resp.buyers[k]]) ]_vars

---------------------------------------------------------------------------
(* Claims on SpecCap *)

CapErrors == {"CSV file is empty", "CSV file cannot contain more than 200 rows"}

(* C15: import hard cap.  An import of zero rows or of more than 200 rows   *)
(* is answered 400 with the row-count error, reports no row error and no    *)
(* count of validated rows, and changes neither table; an import of exactly *)
(* 200 rows is not answered with a row-count error.                         *)
C15_ImportHardCap ==
  [][ resp'.op = "import" =>
        LET n == Len(resp'.batch)
        IN /\ (n = 0 \/ n > 200) =>
                /\ resp'.status = 400
                /\ resp'.error \in CapErrors
                /\ resp'.errors = <<>>
                /\ resp'.validRowsCount = 0 /\ resp'.totalRowsCount = 0
                /\ buyers' = buyers
                /\ history' = history
           /\ n = 200 => resp'.error \notin CapErrors ]_vars

(* beside a stored lead, a file of 201 valid rows was refused by the cap *)
C15_Witness ==
  /\ resp.op = "import" /\ resp.status = 400
  /\ Len(resp.batch) = 201 /\ InvalidRows(resp.batch) = {}
  /\ resp.error = "CSV file cannot contain more than 200 rows"
  /\ DOMAIN buyers = {1} /\ Len(history) = 1

---------------------------------------------------------------------------
(* Claims on SpecOrder *)

(* C19: order of update failures.  The first failing check decides the      *)
(* answer of an update: payload (400), lead absent (404), actor neither     *)
(* owner nor admin (403, without the current updatedAt), token mismatch     *)
(* (409), no mutable field in the validated payload (400); and each of      *)
(* these answers leaves both tables unchanged.                              *)
C19_UpdateFailureOrder ==
  [][ resp'.op = "update" =>
        LET p == resp'.payload
            id == resp'.id
            parses == ShapeIssues(p, TRUE) = {}
                        /\ (p.updatedAt # None => IsDatetime(Val(p.updatedAt)))
            exists == id \in DOMAIN buyers
            allowed == resp'.actor = buyers[id].owner_id \/ resp'.actor = "admin"
            stale == p.updatedAt # None
                       /\ GetTime(Val(p.updatedAt)) # buyers[id].updated_at
            empty == \A f \in Fields : p[f] = None
            failures == {400, 404, 403, 409}
        IN /\ resp'.status =
                (IF ~parses THEN 400
                 ELSE IF ~exists THEN 404
                 ELSE IF ~allowed THEN 403
                 ELSE IF stale THEN 409
                 ELSE IF empty THEN 400
                 ELSE 200)
           /\ resp'.status = 403 => resp'.currentUpdatedAt = None
           /\ resp'.status \in failures => buyers' = buyers /\ history' = history ]_vars

---------------------------------------------------------------------------
(* Claims on SpecRace *)

(* the parsed payload of an update request *)
Parsed(q) == updateBuyerSchema(q.payload, partialKeepsChecks)

(* two answered updates of one lead that is still stored, both carrying *)
(* as token the updated_at both of their SELECTs returned               *)
Raced(a, b) ==
  /\ a.pc = "done" /\ b.pc = "done"
  /\ a.id = b.id /\ a.id \in DOMAIN buyers
  /\ Parsed(a).ok /\ Parsed(b).ok
  /\ a.currentBuyer # None /\ b.currentBuyer # None
  /\ Val(a.currentBuyer).updated_at = Val(b.currentBuyer).updated_at
  /\ a.payload.updatedAt = Some(ToISOString(Val(a.currentBuyer).updated_at))
  /\ b.payload.updatedAt = a.payload.updatedAt

(* C18: race between token-carrying updates.  Two updates of one lead    *)
(* whose token is the updated_at both of them read are both accepted:    *)
(* neither is answered Conflict, both answer success, both writes are    *)
(* applied, the later one deciding the fields both supplied and the      *)
(* earlier one keeping the fields only it supplied, and each leaves an   *)
(* audit entry.                                                          *)
C18_RacingUpdatesBothAccepted ==
  \A r, s \in Requests :
    LET a == inflight[r]
        b == inflight[s]
        first == Parsed(a).data
        second == Parsed(b).data
        Updated(k) == history[k].buyer_id = a.id /\ history[k].diff.action = "updated"
    IN (r # s /\ Raced(a, b) /\ a.wroteAt <= b.wroteAt) =>
         /\ a.status = 200 /\ b.status = 200
         /\ a.updatedBuyer # None /\ b.updatedBuyer # None
         /\ a.wroteAt < b.wroteAt
         /\ buyers[a.id].updated_at = b.wroteAt
         /\ \A f \in Fields :
              buyers[a.id][fieldMapping[f]] =
                (IF second[f] # None THEN UpdateValue(f, second[f])
                 ELSE IF first[f] # None THEN UpdateValue(f, first[f])
                 ELSE Val(a.currentBuyer)[fieldMapping[f]])
         /\ Cardinality({k \in DOMAIN history : Updated(k)}) >= Cardinality({r, s})

C18_Witness ==
  LET a == inflight["r1"]
      b == inflight["r2"]
  IN /\ Raced(a, b)
     /\ a.status = 200 /\ b.status = 200
     /\ a.payload.fullName # None /\ b.payload.status # None
     /\ a.wroteAt < b.wroteAt
     /\ buyers[a.id].full_name = a.payload.fullName
     /\ buyers[a.id].status = b.payload.status

(* C20: update racing with delete.  An update answers success only if   *)
(* its write found the lead, and every audit entry references a lead    *)
(* that is stored.                                                      *)
C20_UpdateAfterDeleteFails ==
  /\ \A r \in Requests :
       (inflight[r].pc = "done" /\ inflight[r].status = 200) =>
         inflight[r].updatedBuyer # None
  /\ \A k \in DOMAIN history : history[k].buyer_id \in DOMAIN buyers

C20_Witness ==
  \E r \in Requests :
    /\ inflight[r].pc = "done"
    /\ inflight[r].currentBuyer # None
    /\ inflight[r].updatedBuyer = None
    /\ inflight[r].id \notin DOMAIN buyers
    /\ inflight[r].status = 500
    /\ resp.op = "update" /\ resp.fault = "history"

---------------------------------------------------------------------------
(* Claims on SpecFault *)

(* C21: failure atomicity of single-lead mutations.  A create or update  *)
(* that answers a store failure (500) leaves the table of leads as it    *)
(* was before the call: no lead is inserted or modified without its      *)
(* audit entry.                                                          *)
C21_FailedMutationLeavesLeads ==
  [][ (resp'.op \in {"create", "update"} /\ resp'.status = 500) =>
        /\ buyers' = buyers
        /\ history' = history ]_vars

====
